---------------------------- MODULE Spec2Model ----------------------------
(***************************************************************************)
(* Session/transport bridge of the Wikidata MCP servers.                   *)
(*                                                                         *)
(* Spec     : the queue bridge of render_server.py and minimal_server.py   *)
(*            (the variable `variant` says which of the two files runs).   *)
(* SpecSse  : server_sse.py, where the streams and the inbound channel     *)
(*            belong to the MCP library's SseServerTransport and the       *)
(*            server keeps its own registry active_sessions beside it.     *)
(*                                                                         *)
(* One asyncio event loop runs every coroutine, so the code between two    *)
(* awaits that really suspend is one atomic action.  asyncio.Queue() is    *)
(* unbounded: put never suspends, get suspends only on an empty queue.     *)
(* mcp._mcp_server.run (the protocol loop of the MCP library) is abstracted*)
(* to what the bridge can observe of it: it takes one message from the     *)
(* read queue, later puts one response on the write queue, and may return, *)
(* raise, or be cancelled at any of its awaits.                            *)
(***************************************************************************)
EXTENDS Integers, Sequences, FiniteSets, TLC

\* ------------------------------------------------------------ bounds
MaxSessions == 2      \* push streams opened in one run
MaxMsgs     == 2      \* POST requests made in one run
MaxPings    == 1      \* liveness markers one keeper enqueues in one run
MaxFairMsgs == 1      \* POST requests made in one run under fair scheduling

MaxStreams  == 2      \* server_sse: push streams opened in one run
MaxPosts    == 2      \* server_sse: POST requests made in one run

MaxLen      == 3      \* tokens in the text of a SPARQL query
MaxHits     == 2      \* hits in one answer of wbsearchentities
MaxCalls    == 2      \* get_entity_metadata calls with one id in one run

Ids   == 1..MaxSessions
Msgs  == 1..MaxMsgs
NoId  == 0            \* the POST carries no session_id parameter
BogusId == MaxSessions + 1   \* an id the server never issued

\* ------------------------------------------------------------ values
\* The close signal of run_mcp_server: write_queue.put(None).
NoneItem == [kind |-> "None", id |-> 0]

\* f": ping - {datetime.now().isoformat()}" (the timestamp is not modelled).
ping_message == [kind |-> "ping", id |-> 0]

\* The response the protocol loop writes for request m.
Response(m) == [kind |-> "response", id |-> m]

\* First character of a queue item's text: the ping text starts with ':',
\* a JSON-RPC response with '{'.
FirstChar(item) == IF item.kind = "ping" THEN ":" ELSE "{"

\* The first frame written without its "event: endpoint" line.
EndpointFrameNoEvent(session_id) ==
    [event |-> "", field |-> "data", sid |-> session_id,
     payload |-> [kind |-> "url", id |-> session_id]]

\* f"event: endpoint\ndata: /messages?session_id={session_id}\n\n"
EndpointFrame(session_id) ==
    [event |-> "endpoint", field |-> "data", sid |-> session_id,
     payload |-> [kind |-> "url", id |-> session_id]]

\* f"data: {message}\n\n": every item taken from the write queue is written
\* after the field name "data", whatever the item is.
DataFrame(message) ==
    [event |-> "", field |-> "data", sid |-> 0, payload |-> message]

\* A put that adds at the head of the queue (a LIFO queue).
QueuePutFront(q, x) == <<x>> \o q

\* asyncio.Queue.put / get on an unbounded FIFO queue.
QueuePut(q, x) == Append(q, x)
QueueHead(q) == Head(q)
QueueRest(q) == Tail(q)

VARIABLES
    variant,             \* "render" | "minimal": which server file runs
    issued,              \* the session ids uuid4() has drawn so far, in order
    active_connections,  \* keys of the dict active_connections
    read_queue,          \* id -> the session's read_queue (inbound)
    write_queue,         \* id -> the session's write_queue (outbound)
    gen,                 \* id -> position of the stream's generator
    frames,              \* id -> frames the generator has yielded so far
    mcp_task,            \* id -> state of the run_mcp_server task
    ping_task,           \* id -> state of the send_periodic_pings task
    inflight,            \* id -> request the protocol loop is serving (0: none)
    pending_posts,       \* messages_endpoint calls suspended in request.body()
    sent,                \* number of POST requests made so far
    post_status,         \* msg -> HTTP status of its POST (0: not answered)
    accepted,            \* history: id -> messages put on read_queue, in order
    consumed,            \* history: id -> messages the protocol loop took
    enqueued,            \* history: id -> items put on write_queue, in order
    cleanups,            \* history: id -> times the finally block ran
    pings,               \* history: id -> markers the keeper enqueued
    backend_call,        \* id of the session whose tool function is inside a
                         \* blocking requests.get (0: none)
    \* ---- server_sse.py
    clock,               \* datetime.now(): a clock that every reading advances
    sse_issued,          \* the session ids server_sse drew with uuid4(), in order
    active_sessions,     \* the dict active_sessions: id -> its metadata record
    stream_pc,           \* stream -> position of its sse_endpoint call
    stream_sid,          \* stream -> the session_id variable of that call
    stream_writer,       \* stream -> state of the transport's channel to it
    inbox,               \* stream -> messages the transport delivered to it
    sse_frames,          \* stream -> frames written to the client
    sse_pending,         \* post_messages_no_slash calls suspended in an await
    sse_sent,            \* number of POST requests made so far
    sse_log,             \* history: message -> how its POST was handled
    sse_method,          \* message -> the method of the JSON-RPC request in it
    initialized,         \* stream -> its runner has served the initialize request
    \* ---- wikidata_api.py and the tool functions
    api_input,           \* the inputs of the tool functions in this run
    wikidata_entities,   \* the backend: entity id -> what wbgetentities answers
    api_call,            \* the last call of a tool function and what it returned
    metadata_seen        \* history: entity id -> the first payload returned for
                         \* it and the number of calls made with it

bridgeVars == <<variant, issued, active_connections, read_queue, write_queue,
                gen, frames, mcp_task, ping_task, inflight, pending_posts,
                sent, post_status, accepted, consumed, enqueued, cleanups,
                pings, backend_call>>

sseVars == <<clock, sse_issued, active_sessions, stream_pc, stream_sid,
             stream_writer, inbox, sse_frames, sse_pending, sse_sent, sse_log,
             sse_method, initialized>>

apiVars == <<api_input, wikidata_entities, api_call, metadata_seen>>

vars == <<bridgeVars, sseVars, apiVars>>

queueVars == <<read_queue, write_queue, accepted, consumed, enqueued>>
taskVars  == <<mcp_task, ping_task, inflight>>
postVars  == <<pending_posts, sent, post_status>>
histVars  == <<cleanups, pings>>

Streams == 1..MaxStreams
Posts   == 1..MaxPosts
\* server_sse session ids: sse_endpoint and post_messages_no_slash both draw.
SseIds  == 1..(MaxStreams + MaxPosts)
\* The transport draws the id of stream k itself (uuid4() inside connect_sse);
\* the two draws never meet, so its ids are kept apart from the server's.
Tid(k)  == 100 + k
Tids    == {Tid(k) : k \in Streams}
\* An id neither the server nor the transport issued.
SseBogusId == MaxStreams + MaxPosts + 1
\* The method of a posted JSON-RPC request: the initialization request of the
\* handshake, or any other call (tools/call, tools/list, ...).
Methods == {"initialize", "call"}

NoLog == [rule |-> 0, param |-> NoId, session_id |-> NoId, addressed |-> NoId,
          status |-> 0, delivered |-> 0]

\* No stream is open and no request was made yet.
Start ==
    /\ issued = <<>>
    /\ active_connections = {}
    /\ read_queue = [i \in Ids |-> <<>>]
    /\ write_queue = [i \in Ids |-> <<>>]
    /\ gen = [i \in Ids |-> "none"]
    /\ frames = [i \in Ids |-> <<>>]
    /\ mcp_task = [i \in Ids |-> "none"]
    /\ ping_task = [i \in Ids |-> "none"]
    /\ inflight = [i \in Ids |-> 0]
    /\ pending_posts = {}
    /\ sent = 0
    /\ post_status = [m \in Msgs |-> 0]
    /\ accepted = [i \in Ids |-> <<>>]
    /\ consumed = [i \in Ids |-> <<>>]
    /\ enqueued = [i \in Ids |-> <<>>]
    /\ cleanups = [i \in Ids |-> 0]
    /\ pings = [i \in Ids |-> 0]
    /\ backend_call = 0
    /\ clock = 1
    /\ sse_issued = <<>>
    /\ active_sessions = <<>>
    /\ stream_pc = [k \in Streams |-> "none"]
    /\ stream_sid = [k \in Streams |-> NoId]
    /\ stream_writer = [k \in Streams |-> "none"]
    /\ inbox = [k \in Streams |-> <<>>]
    /\ sse_frames = [k \in Streams |-> <<>>]
    /\ sse_pending = {}
    /\ sse_sent = 0
    /\ sse_log = [m \in Posts |-> NoLog]
    /\ sse_method = [m \in Posts |-> ""]
    /\ initialized = [k \in Streams |-> FALSE]

\* The entity ids a call can name, and what the wbgetentities endpoint of
\* the backend holds for an id: a record with English label and description
\* ("full"), a record with neither ("bare"), or nothing ("absent"); or the
\* request for that id fails ("RequestException").
EntityIds == {"Q937", "Q42"}
EntityAnswers == {"full", "bare", "absent", "RequestException"}

\* No tool function was called yet.
NoCall == [op |-> "", arg |-> <<>>, result |-> <<>>]
NoPayload ==
    [kind |-> "none", id |-> "", label |-> "", description |-> "", error |-> ""]
NoInput == [op |-> ""]
StartApi ==
    /\ api_call = NoCall
    /\ metadata_seen = [e \in EntityIds |-> [first |-> NoPayload, calls |-> 0]]

Init ==
    /\ variant \in {"render", "minimal"}
    /\ Start
    /\ api_input = NoInput
    /\ wikidata_entities = [e \in EntityIds |-> "absent"]
    /\ StartApi

InitSse ==
    /\ variant = "sse"
    /\ Start
    /\ api_input = NoInput
    /\ wikidata_entities = [e \in EntityIds |-> "absent"]
    /\ StartApi

\* The stream of session i has ended: its generator finished or was closed.
StreamEnded(i) == gen[i] \in {"closed", "dropped"}

\* str(uuid4()): a random 122-bit token; taken as never drawn before in this
\* process (the n-th draw is the token n).
uuid4 == Len(issued) + 1

\* Every handler and task of the server is a coroutine of the one event
\* loop, and the tool functions are plain `def`s that call requests.get
\* (wikidata_api.py:87, 121, 155, 291) on the loop's thread: while one of
\* them waits for the backend, the loop runs nothing else.
LoopFree == backend_call = 0

\* ------------------------------------------------------ push stream
\* render_server.sse_endpoint: the handler draws the id and registers the
\* session, then returns the StreamingResponse; generate() has not run yet.
\* minimal_server: the id is drawn and the session registered inside
\* event_generator, which then runs to its first yield in the same step.
SseOpen ==
    /\ LoopFree
    /\ Len(issued) < MaxSessions
    /\ uuid4 \in Ids
    /\ issued' = Append(issued, uuid4)
    /\ active_connections' = active_connections \cup {uuid4}
    /\ IF variant = "render"
       THEN /\ gen' = [gen EXCEPT ![uuid4] = "created"]
            /\ UNCHANGED frames
       ELSE /\ gen' = [gen EXCEPT ![uuid4] = "endpoint"]
            /\ frames' = [frames EXCEPT ![uuid4] = <<EndpointFrame(uuid4)>>]
    /\ UNCHANGED <<apiVars, sseVars, variant, backend_call, queueVars, taskVars, postVars, histVars>>

\* render_server generate(), first __anext__: runs to the first yield.
GenStart(i) ==
    /\ LoopFree
    /\ gen[i] = "created"
    /\ gen' = [gen EXCEPT ![i] = "endpoint"]
    /\ frames' = [frames EXCEPT ![i] = Append(@, EndpointFrame(i))]
    /\ UNCHANGED <<apiVars, sseVars, variant, backend_call, issued, active_connections, queueVars, taskVars,
                   postVars, histVars>>

\* The generator is resumed after the endpoint frame: it creates the two
\* tasks, enters the try block and suspends in write_queue.get() (the queue
\* is empty: nothing could write to it before).  Both tasks take their first
\* step before anything else can cancel them: run_mcp_server is inside its
\* try block, send_periodic_pings has passed its while test and sleeps.
GenEnter(i) ==
    /\ LoopFree
    /\ gen[i] = "endpoint"
    /\ gen' = [gen EXCEPT ![i] = "waiting"]
    /\ mcp_task' = [mcp_task EXCEPT ![i] = "running"]
    /\ ping_task' = [ping_task EXCEPT ![i] =
                        IF i \in active_connections THEN "sleeping" ELSE "done"]
    /\ UNCHANGED <<apiVars, sseVars, variant, backend_call, issued, active_connections, queueVars, frames,
                   inflight, postVars, histVars>>

\* The finally block of the generator.
\* render: ping_task.cancel(); if not mcp_task.done(): mcp_task.cancel();
\*         if session_id in active_connections: del ...
\* minimal: ping_task.cancel(); if session_id in active_connections: del ...
\*          (the run_mcp_server task was never kept and is not cancelled).
CancelPing(st) == IF st = "sleeping" THEN "cancelling" ELSE st
CancelMcp(v, st) ==
    IF v = "render" /\ st = "running" THEN "cancelling" ELSE st

Cleanup(i) ==
    /\ ping_task' = [ping_task EXCEPT ![i] = CancelPing(@)]
    /\ mcp_task' = [mcp_task EXCEPT ![i] = CancelMcp(variant, @)]
    /\ active_connections' = active_connections \ {i}
    /\ cleanups' = [cleanups EXCEPT ![i] = @ + 1]

\* A test that takes no item for the close signal.
never_none(message) == FALSE

\* `if message is None: break`
is_none(message) == message = NoneItem

\* message = await write_queue.get(); None ends the loop (and runs the
\* finally block), anything else is yielded as a data frame.
GenTake(i) ==
    /\ LoopFree
    /\ gen[i] = "waiting"
    /\ write_queue[i] # <<>>
    /\ write_queue' = [write_queue EXCEPT ![i] = QueueRest(@)]
    /\ IF is_none(QueueHead(write_queue[i]))
       THEN /\ gen' = [gen EXCEPT ![i] = "closed"]
            /\ Cleanup(i)
            /\ UNCHANGED frames
       ELSE /\ gen' = [gen EXCEPT ![i] = "yielded"]
            /\ frames' = [frames EXCEPT ![i] =
                             Append(@, DataFrame(QueueHead(write_queue[i])))]
            /\ UNCHANGED <<mcp_task, ping_task, active_connections, cleanups>>
    /\ UNCHANGED <<apiVars, sseVars, variant, backend_call, issued, read_queue, accepted, consumed, enqueued,
                   inflight, postVars, pings>>

\* The consumer asks for the next frame: the generator loops back to get().
GenResume(i) ==
    /\ LoopFree
    /\ gen[i] = "yielded"
    /\ gen' = [gen EXCEPT ![i] = "waiting"]
    /\ UNCHANGED <<apiVars, sseVars, variant, backend_call, issued, active_connections, queueVars, frames,
                   taskVars, postVars, histVars>>

\* The client goes away (or writing to it fails) and the server stops
\* iterating the generator.
\*  - not started, or suspended at the endpoint yield: the generator is
\*    closed outside its try block, the finally block does not run;
\*  - suspended in write_queue.get(): CancelledError is raised there;
\*  - suspended at a data yield: GeneratorExit is raised there;
\*    in both cases the finally block runs.
Disconnect(i) ==
    /\ LoopFree
    /\ gen[i] \in {"created", "endpoint", "waiting", "yielded"}
    /\ IF gen[i] \in {"created", "endpoint"}
       THEN /\ gen' = [gen EXCEPT ![i] = "dropped"]
            /\ UNCHANGED <<mcp_task, ping_task, active_connections, cleanups>>
       ELSE /\ gen' = [gen EXCEPT ![i] = "closed"]
            /\ Cleanup(i)
    /\ UNCHANGED <<apiVars, sseVars, variant, backend_call, issued, queueVars, frames, inflight, postVars,
                   pings>>

\* ------------------------------------------------------ POST /messages
\* A check that rejects only a missing id.
MissingSessionId(p) == p = NoId

\* if not session_id or session_id not in active_connections
InvalidSessionId(p) == p = NoId \/ p \notin active_connections

\* messages_endpoint up to `await request.body()`: the session id is checked
\* against the registry; a missing or unknown id is answered 400.
PostCheck(p) ==
    /\ LoopFree
    /\ sent < MaxMsgs
    /\ sent' = sent + 1
    /\ IF InvalidSessionId(p)
       THEN /\ post_status' = [post_status EXCEPT ![sent + 1] = 400]
            /\ UNCHANGED pending_posts
       ELSE /\ pending_posts' =
                   pending_posts \cup {[session_id |-> p, message |-> sent + 1]}
            /\ UNCHANGED post_status
    /\ UNCHANGED <<apiVars, sseVars, variant, backend_call, issued, active_connections, queueVars, gen, frames,
                   taskVars, histVars>>

\* A lookup that returns the queue of the session opened last, whatever id
\* is asked for.
read_queue_of_latest(session_id) == Len(issued)

\* active_connections[session_id]["read_queue"]: the queue registered under
\* the key session_id (queues are named by the id of their session).
read_queue_of(session_id) == session_id

\* messages_endpoint after the body arrived:
\* await active_connections[session_id]["read_queue"].put(message); 200.
\* The subscript raises KeyError when the session was removed meanwhile,
\* which nothing catches (the framework answers 500).
PostPut(r) ==
    /\ LoopFree
    /\ r \in pending_posts
    /\ pending_posts' = pending_posts \ {r}
    /\ IF r.session_id \in active_connections
       THEN /\ read_queue' = [read_queue EXCEPT ![read_queue_of(r.session_id)] =
                                 QueuePut(@, r.message)]
            /\ accepted' = [accepted EXCEPT ![read_queue_of(r.session_id)] =
                               Append(@, r.message)]
            /\ post_status' = [post_status EXCEPT ![r.message] = 200]
       ELSE /\ post_status' = [post_status EXCEPT ![r.message] = 500]
            /\ UNCHANGED <<read_queue, accepted>>
    /\ UNCHANGED <<apiVars, sseVars, variant, backend_call, issued, active_connections, write_queue, consumed,
                   enqueued, gen, frames, taskVars, sent, histVars>>

\* ------------------------------------------------------ protocol runner
\* Inside mcp._mcp_server.run: the loop takes the next inbound message.
RunnerRecv(i) ==
    /\ LoopFree
    /\ mcp_task[i] = "running"
    /\ inflight[i] = 0
    /\ read_queue[i] # <<>>
    /\ inflight' = [inflight EXCEPT ![i] = QueueHead(read_queue[i])]
    /\ read_queue' = [read_queue EXCEPT ![i] = QueueRest(@)]
    /\ consumed' = [consumed EXCEPT ![i] = Append(@, QueueHead(read_queue[i]))]
    /\ UNCHANGED <<apiVars, sseVars, variant, backend_call, issued, active_connections, write_queue, accepted,
                   enqueued, gen, frames, mcp_task, ping_task, postVars,
                   histVars>>

\* Inside mcp._mcp_server.run: the response to the message being served is
\* written to the write stream before the next message is taken.
RunnerReply(i) ==
    /\ LoopFree
    /\ mcp_task[i] = "running"
    /\ inflight[i] # 0
    /\ write_queue' = [write_queue EXCEPT ![i] = QueuePut(@, Response(inflight[i]))]
    /\ enqueued' = [enqueued EXCEPT ![i] = Append(@, Response(inflight[i]))]
    /\ inflight' = [inflight EXCEPT ![i] = 0]
    /\ UNCHANGED <<apiVars, sseVars, variant, backend_call, issued, active_connections, read_queue, accepted,
                   consumed, gen, frames, mcp_task, ping_task, postVars,
                   histVars>>

\* The protocol loop dispatches the request it is serving to a tool
\* function (search_wikidata_entity, ...), which calls the backend with
\* requests.get and blocks until the answer is there.
BackendCall(i) ==
    /\ LoopFree
    /\ mcp_task[i] = "running"
    /\ inflight[i] # 0
    /\ backend_call' = i
    /\ UNCHANGED <<apiVars, sseVars, variant, issued, active_connections, queueVars, gen,
                   frames, taskVars, postVars, histVars>>

\* requests.get returns (or raises RequestException, which the function
\* turns into an error string): the tool function returns to the loop.
BackendReturn(i) ==
    /\ backend_call = i
    /\ backend_call' = 0
    /\ UNCHANGED <<apiVars, sseVars, variant, issued, active_connections, queueVars, gen,
                   frames, taskVars, postVars, histVars>>

\* A finally block that puts nothing.
PutNothing(q) == q

\* finally: await write_queue.put(None)
PutSentinel(q) == QueuePut(q, NoneItem)

\* run_mcp_server ends: run() returned ("completed"), raised an exception
\* caught by `except Exception` ("failed"), or the task was cancelled
\* ("cancelling": CancelledError is raised at the await inside the try).
\* On every one of them the finally block puts None on the write queue.
RunnerEnd(i) ==
    /\ LoopFree
    /\ mcp_task[i] \in {"running", "cancelling"}
    /\ \E how \in IF mcp_task[i] = "cancelling"
                  THEN {"cancelled"} ELSE {"completed", "failed"} :
           mcp_task' = [mcp_task EXCEPT ![i] = how]
    /\ write_queue' = [write_queue EXCEPT ![i] = PutSentinel(@)]
    /\ enqueued' = [enqueued EXCEPT ![i] = PutSentinel(@)]
    /\ inflight' = [inflight EXCEPT ![i] = 0]
    /\ UNCHANGED <<apiVars, sseVars, variant, backend_call, issued, active_connections, read_queue, accepted,
                   consumed, gen, frames, ping_task, postVars, histVars>>

\* ------------------------------------------------------ liveness keeper
\* A keeper that puts a ping whenever its sleep is over: it does not look
\* the session up first and goes on after cancel() was called in its sleep.
KeeperWakeUnchecked(i) ==
    /\ LoopFree
    /\ ping_task[i] \in {"sleeping", "cancelling"}
    /\ pings[i] < MaxPings
    /\ write_queue' = [write_queue EXCEPT ![i] = QueuePut(@, ping_message)]
    /\ enqueued' = [enqueued EXCEPT ![i] = Append(@, ping_message)]
    /\ pings' = [pings EXCEPT ![i] = @ + 1]
    /\ UNCHANGED <<apiVars, sseVars, variant, backend_call, issued,
                   active_connections, read_queue, accepted, consumed, gen,
                   frames, mcp_task, ping_task, inflight, postVars, cleanups>>

\* send_periodic_pings: the sleep is over;
\* if session_id in active_connections: put the ping on its write_queue;
\* then the while test: still registered -> sleep again, else return.
\* No await suspends between the test and the put.
KeeperWake(i) ==
    /\ LoopFree
    /\ ping_task[i] = "sleeping"
    /\ pings[i] < MaxPings
    /\ IF i \in active_connections
       THEN /\ write_queue' = [write_queue EXCEPT ![i] = QueuePut(@, ping_message)]
            /\ enqueued' = [enqueued EXCEPT ![i] = Append(@, ping_message)]
            /\ pings' = [pings EXCEPT ![i] = @ + 1]
            /\ UNCHANGED ping_task
       ELSE /\ ping_task' = [ping_task EXCEPT ![i] = "done"]
            /\ UNCHANGED <<write_queue, enqueued, pings>>
    /\ UNCHANGED <<apiVars, sseVars, variant, backend_call, issued, active_connections, read_queue, accepted,
                   consumed, gen, frames, mcp_task, inflight, postVars,
                   cleanups>>

\* ping_task.cancel() took effect: CancelledError is raised in the sleep.
KeeperCancelled(i) ==
    /\ LoopFree
    /\ ping_task[i] = "cancelling"
    /\ ping_task' = [ping_task EXCEPT ![i] = "cancelled"]
    /\ UNCHANGED <<apiVars, sseVars, variant, backend_call, issued, active_connections, queueVars, gen, frames,
                   mcp_task, inflight, postVars, histVars>>

Next ==
    \/ SseOpen
    \/ \E i \in Ids : GenStart(i)
    \/ \E i \in Ids : GenEnter(i)
    \/ \E i \in Ids : GenTake(i)
    \/ \E i \in Ids : GenResume(i)
    \/ \E i \in Ids : Disconnect(i)
    \/ \E p \in {NoId, BogusId} \cup {issued[k] : k \in 1..Len(issued)} :
           PostCheck(p)
    \/ \E r \in pending_posts : PostPut(r)
    \/ \E i \in Ids : RunnerRecv(i)
    \/ \E i \in Ids : RunnerReply(i)
    \/ \E i \in Ids : RunnerEnd(i)
    \/ \E i \in Ids : KeeperWake(i)
    \/ \E i \in Ids : KeeperCancelled(i)
    \/ \E i \in Ids : BackendCall(i)
    \/ \E i \in Ids : BackendReturn(i)

Spec == Init /\ [][Next]_vars

\* Scheduling.  The event loop runs its ready callbacks in the order they
\* became ready: the next step of a stream's generator, when it can run
\* again and again, is run, also when blocking backend calls of other
\* sessions keep interrupting (strong fairness).  Its steps outside the
\* loop body are driven by the response writer as long as the client reads.
\* A backend call that is in flight comes back, with an answer or an
\* exception.
GenStep(i) == GenStart(i) \/ GenEnter(i) \/ GenTake(i) \/ GenResume(i)

Fairness ==
    /\ \A i \in Ids : SF_vars(GenStep(i))
    /\ WF_vars(\E i \in Ids : BackendReturn(i))

\* The bridge under fair scheduling; MaxFairMsgs requests are posted.
NextFair ==
    \/ SseOpen
    \/ \E i \in Ids : GenStart(i)
    \/ \E i \in Ids : GenEnter(i)
    \/ \E i \in Ids : GenTake(i)
    \/ \E i \in Ids : GenResume(i)
    \/ \E i \in Ids : Disconnect(i)
    \/ /\ sent < MaxFairMsgs
       /\ \E p \in {NoId, BogusId} \cup {issued[k] : k \in 1..Len(issued)} :
              PostCheck(p)
    \/ \E r \in pending_posts : PostPut(r)
    \/ \E i \in Ids : RunnerRecv(i)
    \/ \E i \in Ids : RunnerReply(i)
    \/ \E i \in Ids : RunnerEnd(i)
    \/ \E i \in Ids : KeeperWake(i)
    \/ \E i \in Ids : KeeperCancelled(i)
    \/ \E i \in Ids : BackendCall(i)
    \/ \E i \in Ids : BackendReturn(i)

SpecFair == Init /\ [][NextFair]_vars /\ Fairness

\* ================================================================ server_sse
\* The registry with entry id set to rec / with entry id deleted.
WithEntry(reg, id, rec) ==
    [x \in DOMAIN reg \cup {id} |-> IF x = id THEN rec ELSE reg[x]]
WithoutEntry(reg, id) == [x \in DOMAIN reg \ {id} |-> reg[x]]

\* `del active_sessions[session_id]` without the test before it: the registry
\* afterwards, and whether the statement raised KeyError.
del_unguarded(reg, id) ==
    [registry |-> WithoutEntry(reg, id), raised |-> id \notin DOMAIN reg]

\* `if session_id in active_sessions: del active_sessions[session_id]`
\* (lines 653-654, 660-661, 666-667).
del_session(reg, id) ==
    [registry |-> IF id \in DOMAIN reg THEN WithoutEntry(reg, id) ELSE reg,
     raised |-> FALSE]

\* Leaving the try block of sse_endpoint by way `how`: the except branches
\* (503, 500) remove the session, then the finally block removes it again.
\* Result: the registry afterwards and the position of the call, "KeyError"
\* when a removal raised and the exception left the handler.
leave_try(reg, id, how) ==
    LET first == IF how \in {"503", "500"} THEN del_session(reg, id)
                 ELSE [registry |-> reg, raised |-> FALSE]
        last  == del_session(first.registry, id)
    IN  [registry |-> last.registry,
         pc |-> IF first.raised \/ last.raised THEN "KeyError" ELSE how]

\* str(uuid4()) in server_sse: as above, never drawn before.
sse_uuid4 == Len(sse_issued) + 1

\* active_sessions[session_id]["last_activity"] = datetime.now().isoformat()
Touch(reg, id) == [reg EXCEPT ![id].last_activity = clock]

\* An update that stamps every registered session, not only session id.
TouchAllAndCount(reg, id) ==
    [x \in DOMAIN reg |->
        IF x = id
        THEN [reg[x] EXCEPT !.last_activity = clock, !.message_count = @ + 1]
        ELSE [reg[x] EXCEPT !.last_activity = clock]]

\* ... and ["message_count"] = .get("message_count", 0) + 1
\* (a record without the key is kept as message_count 0).
TouchAndCount(reg, id) ==
    [reg EXCEPT ![id].last_activity = clock, ![id].message_count = @ + 1]

\* sorted(...)[0][0] without reverse=True: the least recently active session.
LeastRecent(reg) ==
    CHOOSE s \in DOMAIN reg :
        \A t \in DOMAIN reg : reg[s].last_activity <= reg[t].last_activity

\* sorted(active_sessions.items(), key=last_activity, reverse=True)[0][0]
MostRecent(reg) ==
    CHOOSE s \in DOMAIN reg :
        \A t \in DOMAIN reg : reg[t].last_activity <= reg[s].last_activity

\* The first frame of stream k is written by the transport inside
\* connect_sse: the server never passes it session_id, the frame carries the
\* transport's own id.
TransportEndpointFrame(k) ==
    [event |-> "endpoint", field |-> "data", sid |-> Tid(k),
     payload |-> [kind |-> "url", id |-> Tid(k)]]

\* sse_endpoint up to its first await (lines 600-632): the session id is
\* taken from the session_id query parameter when that names a registered
\* session, else drawn and registered; then connect_sse opens stream k.
SseConnect(k, q) ==
    /\ stream_pc[k] = "none"
    /\ \A j \in 1..(k - 1) : stream_pc[j] # "none"
    /\ clock' = clock + 1
    /\ IF q # NoId /\ q \in DOMAIN active_sessions
       THEN /\ stream_sid' = [stream_sid EXCEPT ![k] = q]
            /\ active_sessions' = Touch(active_sessions, q)
            /\ UNCHANGED sse_issued
       ELSE /\ stream_sid' = [stream_sid EXCEPT ![k] = sse_uuid4]
            /\ sse_issued' = Append(sse_issued, sse_uuid4)
            /\ active_sessions' =
                   WithEntry(active_sessions, sse_uuid4,
                             [created_at |-> clock, last_activity |-> clock,
                              message_count |-> 0, connection_count |-> 1])
    /\ stream_pc' = [stream_pc EXCEPT ![k] = "serving"]
    /\ stream_writer' = [stream_writer EXCEPT ![k] = "open"]
    /\ sse_frames' = [sse_frames EXCEPT ![k] = <<TransportEndpointFrame(k)>>]
    /\ UNCHANGED <<apiVars, bridgeVars, inbox, sse_pending, sse_sent, sse_log,
                   sse_method, initialized>>

\* The status line of stream k's HTTP response as the client has it.
\* connect_sse is given request._send (lines 624-628): the transport starts
\* the response itself (200, text/event-stream) to write the endpoint frame,
\* and a status line is sent once; a Response that sse_endpoint returns
\* after that cannot replace it.
client_status(k) ==
    IF sse_frames[k] # <<>> THEN "200" ELSE stream_pc[k]

\* The JSON-RPC error response correlated with request m.
ErrorResponse(m) == [kind |-> "error", id |-> m]

\* mcp._mcp_server.run on the transport's streams: the loop takes the next
\* delivered message.  The initialize request completes the handshake and is
\* answered; after the handshake every call is answered.  A call that comes
\* before the handshake is either answered with a correlated error, or the
\* session raises RuntimeError("Received request before initialization was
\* complete") out of run(): sse_endpoint (lines 646-656) catches it, deletes
\* the session and ends the stream with 503.
SseRunnerStep(k) ==
    /\ stream_pc[k] = "serving"
    /\ inbox[k] # <<>>
    /\ inbox' = [inbox EXCEPT ![k] = Tail(@)]
    /\ LET m == Head(inbox[k])
       IN  IF sse_method[m] = "initialize" \/ initialized[k]
           THEN /\ sse_frames' = [sse_frames EXCEPT ![k] =
                                     Append(@, DataFrame(Response(m)))]
                /\ initialized' = [initialized EXCEPT ![k] = TRUE]
                /\ UNCHANGED <<stream_pc, active_sessions, stream_writer>>
           ELSE \/ /\ sse_frames' = [sse_frames EXCEPT ![k] =
                                        Append(@, DataFrame(ErrorResponse(m)))]
                   /\ UNCHANGED <<initialized, stream_pc, active_sessions,
                                  stream_writer>>
                \/ /\ stream_pc' = [stream_pc EXCEPT ![k] =
                          leave_try(active_sessions, stream_sid[k], "503").pc]
                   /\ active_sessions' =
                          leave_try(active_sessions, stream_sid[k],
                                    "503").registry
                   /\ \E w \in {"broken", "none"} :
                          stream_writer' = [stream_writer EXCEPT ![k] = w]
                   /\ UNCHANGED <<initialized, sse_frames>>
    /\ UNCHANGED <<apiVars, bridgeVars, clock, sse_issued, stream_sid, sse_pending,
                   sse_sent, sse_log, sse_method>>

\* sse_endpoint leaves its try block (lines 646-668): run() returned, raised
\* RuntimeError (503) or another exception (500), or the call was cancelled
\* at an await because the client went away.  Each way ends in
\* `if session_id in active_sessions: del active_sessions[session_id]`.
\* Leaving connect_sse closes the transport's channel to the stream; its
\* table entry may stay ("broken") or go ("none").
SseExit(k) ==
    /\ stream_pc[k] = "serving"
    /\ \E how \in {"returned", "503", "500", "cancelled"} :
           LET left == leave_try(active_sessions, stream_sid[k], how)
           IN  /\ stream_pc' = [stream_pc EXCEPT ![k] = left.pc]
               /\ active_sessions' = left.registry
    /\ \E w \in {"broken", "none"} :
           stream_writer' = [stream_writer EXCEPT ![k] = w]
    /\ UNCHANGED <<apiVars, bridgeVars, clock, sse_issued, stream_sid, inbox,
                   sse_frames, sse_pending, sse_sent, sse_log, sse_method,
                   initialized>>

\* post_messages_no_slash up to `await request.body()` (lines 692-735):
\* rule 1, the id names a registered session; rule 2, it does not and some
\* session is registered: the most recently active one is taken; rule 3, the
\* registry is empty: a new session is registered.  The request that goes on
\* to the transport gets the resolved id only when it had no session_id
\* parameter at all; otherwise it keeps the id it came with.
PostResolve(q) ==
    /\ sse_sent < MaxPosts
    /\ sse_sent' = sse_sent + 1
    /\ clock' = clock + 1
    /\ LET rule == IF q # NoId /\ q \in DOMAIN active_sessions THEN 1
                   ELSE IF DOMAIN active_sessions # {} THEN 2 ELSE 3
           session_id == CASE rule = 1 -> q
                           [] rule = 2 -> MostRecent(active_sessions)
                           [] rule = 3 -> sse_uuid4
       IN  /\ active_sessions' =
                  IF rule = 3
                  THEN WithEntry(active_sessions, session_id,
                                 [created_at |-> clock, last_activity |-> clock,
                                  message_count |-> 1, connection_count |-> 0])
                  ELSE TouchAndCount(active_sessions, session_id)
           /\ sse_issued' = IF rule = 3 THEN Append(sse_issued, session_id)
                            ELSE sse_issued
           /\ sse_pending' = sse_pending \cup
                  {[message |-> sse_sent + 1, param |-> q, rule |-> rule,
                    session_id |-> session_id,
                    addressed |-> IF q = NoId THEN session_id ELSE q]}
    /\ \E method \in Methods :
           sse_method' = [sse_method EXCEPT ![sse_sent + 1] = method]
    /\ UNCHANGED <<apiVars, bridgeVars, stream_pc, stream_sid, stream_writer, inbox,
                   sse_frames, sse_log, initialized>>

\* SseServerTransport.handle_post_message as an ASGI application: the id in
\* the request's query string is looked up among the transport's own
\* streams.  Result: <<status, stream the message is delivered to or 0>>.
TransportPost(addressed) ==
    IF addressed = NoId THEN <<400, 0>>
    ELSE IF \E k \in Streams : Tid(k) = addressed /\ stream_writer[k] = "open"
         THEN <<202, CHOOSE k \in Streams : Tid(k) = addressed>>
    ELSE IF \E k \in Streams : Tid(k) = addressed /\ stream_writer[k] = "broken"
         THEN <<0, 0>>      \* anyio.BrokenResourceError
    ELSE <<404, 0>>

\* post_messages_no_slash after its awaits (lines 739-761):
\* response = await sse_transport.handle_post_message(request).
\* The method is the ASGI callable (scope, receive, send) that line 771
\* mounts; called with the one Request argument it raises TypeError, which
\* `except Exception` turns into 500 ("type_error").  The outcome of a
\* transport build that takes the request is kept beside it ("dispatch"):
\* BrokenResourceError becomes 202, any other result is passed on.
PostForward(r) ==
    /\ r \in sse_pending
    /\ sse_pending' = sse_pending \ {r}
    /\ \E call \in {"type_error", "dispatch"} :
         LET res == IF call = "type_error" THEN <<500, 0>>
                    ELSE TransportPost(r.addressed)
             status == IF res[1] = 0 THEN 202 ELSE res[1]
         IN  /\ sse_log' = [sse_log EXCEPT ![r.message] =
                    [rule |-> r.rule, param |-> r.param,
                     session_id |-> r.session_id, addressed |-> r.addressed,
                     status |-> status, delivered |-> res[2]]]
             /\ inbox' = IF res[2] # 0
                         THEN [inbox EXCEPT ![res[2]] = Append(@, r.message)]
                         ELSE inbox
    /\ UNCHANGED <<apiVars, bridgeVars, clock, sse_issued, active_sessions, stream_pc,
                   stream_sid, stream_writer, sse_frames, sse_sent, sse_method,
                   initialized>>

\* POST /messages/ (line 771): the path is mounted on the transport's
\* handle_post_message itself, so no resolution rule runs (rule 0) and the
\* registry is not touched; the transport answers 202 before it writes to
\* the stream's channel, so a broken channel still reads 202 to the client.
PostMounted(q) ==
    /\ sse_sent < MaxPosts
    /\ sse_sent' = sse_sent + 1
    /\ LET res == TransportPost(q)
           status == IF res[1] = 0 THEN 202 ELSE res[1]
       IN  /\ sse_log' = [sse_log EXCEPT ![sse_sent + 1] =
                  [rule |-> 0, param |-> q, session_id |-> NoId,
                   addressed |-> q, status |-> status, delivered |-> res[2]]]
           /\ inbox' = IF res[2] # 0
                       THEN [inbox EXCEPT ![res[2]] = Append(@, sse_sent + 1)]
                       ELSE inbox
    /\ \E method \in Methods :
           sse_method' = [sse_method EXCEPT ![sse_sent + 1] = method]
    /\ UNCHANGED <<apiVars, bridgeVars, clock, sse_issued, active_sessions, stream_pc,
                   stream_sid, stream_writer, sse_frames, sse_pending,
                   initialized>>

\* The session ids a client can put on a request: none, one nobody issued,
\* one the server drew, or one read from an endpoint frame.
SseParams ==
    {NoId, SseBogusId} \cup {sse_issued[n] : n \in 1..Len(sse_issued)}
        \cup {Tid(k) : k \in {j \in Streams : stream_pc[j] # "none"}}

NextSse ==
    \/ \E k \in Streams :
           \E q \in {NoId} \cup {sse_issued[n] : n \in 1..Len(sse_issued)} :
               SseConnect(k, q)
    \/ \E k \in Streams : SseRunnerStep(k)
    \/ \E k \in Streams : SseExit(k)
    \/ \E q \in SseParams : PostResolve(q)
    \/ \E r \in sse_pending : PostForward(r)
    \/ \E q \in SseParams : PostMounted(q)

SpecSse == InitSse /\ [][NextSse]_vars

\* ============================================================ wikidata_api
\* The text of a SPARQL query is a sequence of tokens; the tokens are the
\* pieces of text the code looks for, and "SELECT" stands for any other text.
DQ == "\""
SQ == "'"
FilterContains == "FILTER(CONTAINS(str("
QuoteParen == "\")"
\* "PREFIX" and "prefix" are the keyword of a prefix declaration; PrefixVar
\* is a variable whose name has the word in it and declares nothing.
PrefixVar == "?prefix"
Tokens ==
    {DQ, SQ, "PREFIX", "prefix", PrefixVar, "SELECT", FilterContains,
     QuoteParen}

RECURSIVE SeqsUpTo(_, _)
SeqsUpTo(S, n) ==
    IF n = 0 THEN {<<>>}
    ELSE LET shorter == SeqsUpTo(S, n - 1)
         IN  shorter \cup {Append(q, x) : q \in shorter, x \in S}

Queries == SeqsUpTo(Tokens, MaxLen)

\* sub in token: the pieces of text that occur inside a token.
Inside(token) ==
    IF token = FilterContains
    THEN {FilterContains, "FILTER(", "CONTAINS", "CONTAINS(str("}
    ELSE IF token = QuoteParen THEN {QuoteParen, DQ}
    ELSE IF token = PrefixVar THEN {PrefixVar, "prefix"}
    ELSE {token}

\* sub in text
Contains(text, sub) == \E k \in 1..Len(text) : sub \in Inside(text[k])

\* text.count(ch) for a one-character ch
RECURSIVE Count(_, _)
Count(text, ch) ==
    IF text = <<>> THEN 0
    ELSE (IF ch \in Inside(Head(text)) THEN 1 ELSE 0) + Count(Tail(text), ch)

\* The block of PREFIX declarations execute_sparql puts before a query.
prefixes == <<"PREFIX">>

\* if not any(prefix in sparql_query for prefix in ["PREFIX", "prefix"]):
\*     full_query = prefixes + sparql_query   else: full_query = sparql_query
full_query(sparql_query) ==
    IF ~(Contains(sparql_query, "PREFIX") \/ Contains(sparql_query, "prefix"))
    THEN prefixes \o sparql_query
    ELSE sparql_query

\* What a call returned: a JSON text (kind "bindings" or "error") and the
\* network requests that were made on the way, or an exception (raised).
Bindings(requests) ==
    [raised |-> FALSE, kind |-> "bindings", error |-> "", error_type |-> "",
     query |-> <<>>, requests |-> requests]

\* An error record that carries the query as it was sent.
error_details_sent(sparql_query, e, requests) ==
    [raised |-> FALSE, kind |-> "error",
     error |-> "Error executing query with requests", error_type |-> e,
     query |-> full_query(sparql_query), requests |-> requests]

\* error_details = {"error": ..., "query": sparql_query,
\*                  "error_type": type(e).__name__, "traceback": ...}
error_details(sparql_query, e, requests) ==
    [raised |-> FALSE, kind |-> "error",
     error |-> "Error executing query with requests", error_type |-> e,
     query |-> sparql_query, requests |-> requests]

\* How an attempt at the backend ends: it answers, or the attempt raises.
\* The SPARQLWrapper class may also be unusable (no query attribute).
PrimaryOutcomes  == {"ok", "raises", "unusable"}
FallbackOutcomes == {"ok", "HTTPError", "ConnectionError"}

\* execute_sparql_with_requests: everything is inside try/except Exception.
execute_sparql_with_requests(sparql_query, fallback, before) ==
    LET requests ==
            Append(before, [via |-> "requests", query |-> full_query(sparql_query)])
    IN  IF fallback = "ok" THEN Bindings(requests)
        ELSE error_details(sparql_query, fallback, requests)

\* An execute_sparql that goes on to the fallback after every attempt with
\* SPARQLWrapper, also one that answered.
execute_sparql_always_falls_back(sparql_query, primary, fallback) ==
    execute_sparql_with_requests(sparql_query, fallback,
        IF primary = "unusable" THEN <<>>
        ELSE <<[via |-> "SPARQLWrapper", query |-> full_query(sparql_query)]>>)

\* execute_sparql: SPARQLWrapper first, and on any exception the fallback.
execute_sparql(sparql_query, primary, fallback) ==
    IF primary = "unusable"
    THEN execute_sparql_with_requests(sparql_query, fallback, <<>>)
    ELSE LET attempt ==
                 <<[via |-> "SPARQLWrapper", query |-> full_query(sparql_query)]>>
         IN  IF primary = "ok" THEN Bindings(attempt)
             ELSE execute_sparql_with_requests(sparql_query, fallback, attempt)

\* A structured error of the tool function itself.
ToolError(message) ==
    [raised |-> FALSE, kind |-> "error", error |-> message, error_type |-> "",
     query |-> <<>>, requests |-> <<>>]

\* The tool function execute_wikidata_sparql.  server_sse.py (lines 102-151)
\* validates the quoting before it calls execute_sparql; render_server.py
\* (102-116) and minimal_server.py (79-90) pass the text on as it is.
execute_wikidata_sparql(v, sparql_query, primary, fallback) ==
    IF v = "sse"
    THEN IF Contains(sparql_query, DQ) /\ Count(sparql_query, DQ) % 2 # 0
         THEN ToolError("Unbalanced double quotes in SPARQL query")
         ELSE IF Contains(sparql_query, SQ) /\ Count(sparql_query, SQ) % 2 # 0
         THEN ToolError("Unbalanced single quotes in SPARQL query")
         ELSE IF /\ Contains(sparql_query, "FILTER(")
                 /\ Contains(sparql_query, "CONTAINS")
                 /\ Contains(sparql_query, "CONTAINS(str(")
                 /\ Contains(sparql_query, QuoteParen)
         THEN ToolError("Possible quote issue in CONTAINS")
         ELSE execute_sparql(sparql_query, primary, fallback)
    ELSE execute_sparql(sparql_query, primary, fallback)

\* The inputs of one run of the tool functions: the text of a query and how
\* the two attempts at the SPARQL endpoint end.
SparqlInputs ==
    [op : {"sparql"}, query : Queries, primary : PrimaryOutcomes,
     fallback : FallbackOutcomes]

\* The answer of wbsearchentities to one search: the request fails, or the
\* JSON answer has (or lacks) a "search" list of hits, each with an "id".
HitIds == EntityIds \cup {"P31"}
SearchInputs ==
    [op : {"search"}, http : {"ok", "RequestException"}, search_key : BOOLEAN,
     hits : SeqsUpTo(HitIds, MaxHits)]

\* A run that calls get_entity_metadata; the backend is wikidata_entities.
MetadataInputs == [op : {"metadata"}]

\* A run that calls find_entity_facts: what wbsearchentities answers to the
\* search for the entity and to the search for the property, and whether
\* the caller named a property at all.
SearchAnswers ==
    [http : {"ok", "RequestException"}, search_key : BOOLEAN,
     hits : SeqsUpTo(HitIds, MaxHits)]
FactsInputs ==
    [op : {"facts"}, entity : SearchAnswers, property_name : BOOLEAN,
     property : SearchAnswers]

ApiInputs ==
    SparqlInputs \cup SearchInputs \cup MetadataInputs \cup FactsInputs

\* The hit at the end of the list.
last_hit(hits) == hits[Len(hits)]

\* data["search"][0]["id"]
first_hit(hits) == hits[1]

\* search_entity / search_property (they differ in the "type" parameter of
\* the request and in the texts they return).
search(answer, not_found, failed) ==
    IF answer.http # "ok" THEN failed
    ELSE IF answer.search_key /\ Len(answer.hits) > 0
         THEN first_hit(answer.hits)
         ELSE not_found

search_entity(answer) ==
    search(answer, "No entity found", "Error searching for entity")

search_property(answer) ==
    search(answer, "No property found", "Error searching for property")

\* A payload that changes with the number of calls made so far.
get_entity_metadata_counted(entity_id) ==
    [kind |-> "metadata", id |-> entity_id,
     label |-> IF metadata_seen[entity_id].calls = 0
               THEN "Albert Einstein" ELSE "No label found",
     description |-> "", error |-> ""]

\* get_entity_metadata: the record is built from the answer of the backend
\* and from entity_id alone.
get_entity_metadata(entity_id) ==
    LET answer == wikidata_entities[entity_id]
    IN  IF answer = "RequestException"
        THEN [kind |-> "error", id |-> "", label |-> "", description |-> "",
              error |-> "Error retrieving entity metadata"]
        ELSE IF answer = "absent"
        THEN [kind |-> "error", id |-> "", label |-> "", description |-> "",
              error |-> "Entity not found"]
        ELSE [kind |-> "metadata", id |-> entity_id,
              label |-> IF answer = "full" THEN "Albert Einstein"
                        ELSE "No label found",
              description |-> IF answer = "full" THEN "physicist"
                              ELSE "No description found",
              error |-> ""]

\* search_entity / search_property is called.
CallSearch ==
    /\ api_input.op = "search"
    /\ api_call = NoCall
    /\ \/ api_call' = [op |-> "search_entity", arg |-> <<>>,
                        result |-> search_entity(api_input)]
       \/ api_call' = [op |-> "search_property", arg |-> <<>>,
                        result |-> search_property(api_input)]
    /\ UNCHANGED <<bridgeVars, sseVars, api_input, wikidata_entities,
                   metadata_seen>>

\* get_entity_metadata(entity_id) is called.
CallMetadata(entity_id) ==
    /\ api_input.op = "metadata"
    /\ metadata_seen[entity_id].calls < MaxCalls
    /\ api_call' = [op |-> "get_entity_metadata", arg |-> entity_id,
                    result |-> get_entity_metadata(entity_id)]
    /\ metadata_seen' = [metadata_seen EXCEPT ![entity_id] =
           [first |-> IF @.calls = 0 THEN get_entity_metadata(entity_id)
                      ELSE @.first,
            calls |-> @.calls + 1]]
    /\ UNCHANGED <<bridgeVars, sseVars, api_input, wikidata_entities>>

\* find_entity_facts (server_sse.py 153-229): the backend calls it makes, in
\* order, each with the identifiers it was given, and whether it returns an
\* error record or the combined result.  Only the texts "No entity found"
\* and "No property found" stop it.
find_entity_facts(entity, property_name, property) ==
    LET entity_id == search_entity(entity)
        first == <<[fn |-> "search_entity", args |-> <<>>]>>
        metadata == Append(first, [fn |-> "get_entity_metadata",
                                   args |-> <<entity_id>>])
        property_id == search_property(property)
        searched == Append(metadata, [fn |-> "search_property", args |-> <<>>])
    IN  IF entity_id = "No entity found"
        THEN [kind |-> "error", calls |-> first]
        ELSE IF property_name /\ property_id = "No property found"
        THEN [kind |-> "error", calls |-> searched]
        ELSE IF property_name
        THEN [kind |-> "facts",
              calls |-> Append(searched,
                               [fn |-> "execute_sparql",
                                args |-> <<entity_id, property_id>>])]
        ELSE [kind |-> "facts",
              calls |-> Append(metadata, [fn |-> "execute_sparql",
                                          args |-> <<entity_id>>])]

\* A client calls the tool find_entity_facts of server_sse.
CallFindEntityFacts ==
    /\ api_input.op = "facts"
    /\ variant = "sse"
    /\ api_call = NoCall
    /\ api_call' =
           [op |-> "find_entity_facts", arg |-> <<>>,
            result |-> find_entity_facts(api_input.entity,
                           api_input.property_name, api_input.property)]
    /\ UNCHANGED <<bridgeVars, sseVars, api_input, wikidata_entities,
                   metadata_seen>>

\* A client calls the tool execute_wikidata_sparql.
CallSparqlTool ==
    /\ api_input.op = "sparql"
    /\ api_call = NoCall
    /\ api_call' =
           [op |-> "execute_wikidata_sparql", arg |-> api_input.query,
            result |-> execute_wikidata_sparql(variant, api_input.query,
                           api_input.primary, api_input.fallback)]
    /\ UNCHANGED <<bridgeVars, sseVars, api_input, wikidata_entities,
                   metadata_seen>>

\* execute_sparql is called (by get_entity_properties or a test script).
CallExecuteSparql ==
    /\ api_input.op = "sparql"
    /\ api_call = NoCall
    /\ api_call' =
           [op |-> "execute_sparql", arg |-> api_input.query,
            result |-> execute_sparql(api_input.query, api_input.primary,
                                      api_input.fallback)]
    /\ UNCHANGED <<bridgeVars, sseVars, api_input, wikidata_entities,
                   metadata_seen>>

InitApi ==
    /\ variant \in {"render", "minimal", "sse"}
    /\ Start
    /\ api_input \in ApiInputs
    /\ api_input.op = "facts" => variant = "sse"
    /\ wikidata_entities \in
           IF api_input.op = "metadata" THEN [EntityIds -> EntityAnswers]
           ELSE {[e \in EntityIds |-> "absent"]}
    /\ StartApi

\* Between two calls of get_entity_metadata sessions come and go: streams
\* are opened and closed in the server that runs.
NextApi ==
    \/ CallSparqlTool
    \/ CallExecuteSparql
    \/ CallSearch
    \/ CallFindEntityFacts
    \/ \E e \in EntityIds : CallMetadata(e)
    \/ api_input.op = "metadata" /\ variant # "sse" /\ SseOpen
    \/ api_input.op = "metadata" /\ variant # "sse"
           /\ \E i \in Ids : Disconnect(i)
    \/ api_input.op = "metadata" /\ variant = "sse"
           /\ \E k \in Streams : SseConnect(k, NoId)
    \/ api_input.op = "metadata" /\ variant = "sse"
           /\ \E k \in Streams : SseExit(k)

SpecApi == InitApi /\ [][NextApi]_vars

\* ================================================================ claims
\* Helpers over the histories.
IsPrefix(a, b) == Len(a) <= Len(b) /\ a = SubSeq(b, 1, Len(a))

\* The queue items the stream of session i has written as data frames.
Emitted(i) ==
    IF frames[i] = <<>> THEN <<>>
    ELSE [k \in 1..(Len(frames[i]) - 1) |-> frames[i][k + 1].payload]

\* The request ids of the responses in a sequence of queue items, in order.
RECURSIVE ResponseIds(_)
ResponseIds(items) ==
    IF items = <<>> THEN <<>>
    ELSE IF Head(items).kind = "response"
         THEN <<Head(items).id>> \o ResponseIds(Tail(items))
         ELSE ResponseIds(Tail(items))

\* Number of close signals in a sequence of queue items.
Sentinels(items) == Cardinality({k \in 1..Len(items) : items[k] = NoneItem})

Terminal == {"completed", "failed", "cancelled"}

\* C1: for every session, the messages accepted by POST /messages are on
\* its read queue in acceptance order (what the runner took is a prefix of
\* them, the queue holds the rest in order); the frames written on its
\* stream are the items put on its write queue in the order they were put,
\* with none lost, repeated or reordered up to the close signal; and the
\* responses written answer the requests in the order they were accepted.
C1_Fifo ==
    \A i \in Ids :
        /\ consumed[i] \o read_queue[i] = accepted[i]
        /\ IsPrefix(Emitted(i), enqueued[i])
        /\ \/ Emitted(i) \o write_queue[i] = enqueued[i]
           \/ Emitted(i) \o <<NoneItem>> \o write_queue[i] = enqueued[i]
        /\ NoneItem \notin {Emitted(i)[k] : k \in 1..Len(Emitted(i))}
        /\ IsPrefix(ResponseIds(Emitted(i)), accepted[i])

\* Two requests were accepted for one session and both responses were
\* written on its stream, with a liveness marker in the same stream.
C1_Witness ==
    \E i \in Ids :
        /\ Len(accepted[i]) = 2
        /\ Len(ResponseIds(Emitted(i))) = 2
        /\ pings[i] = 1


\* C2: every stream that has yielded anything yielded the endpoint frame
\* first and yields no second one; a stream past its first step has yielded
\* it; the frame carries the stream's own session id; and no session id is
\* ever drawn twice, whether or not the earlier session is still registered.
C2_EndpointFirst ==
    /\ \A i \in Ids :
          /\ gen[i] \notin {"none", "created", "dropped"} => frames[i] # <<>>
          /\ frames[i] # <<>> =>
                /\ Head(frames[i]).event = "endpoint"
                /\ Head(frames[i]).sid = i
                /\ \A k \in 2..Len(frames[i]) : frames[i][k].event # "endpoint"
    /\ \A a, b \in 1..Len(issued) : a # b => issued[a] # issued[b]

\* A second stream was opened after the first session had been removed, and
\* both streams wrote frames after their endpoint frame.
C2_Witness ==
    /\ Len(issued) = 2
    /\ issued[1] \notin active_connections
    /\ gen[issued[1]] = "closed"
    /\ Len(frames[issued[1]]) >= 2
    /\ Len(frames[issued[2]]) >= 2

\* C3: on every exit of a push stream the session's registry entry is
\* removed and the cleanup has run exactly once.
C3_CleanupOnEveryExit ==
    \A i \in Ids :
        StreamEnded(i) => i \notin active_connections /\ cleanups[i] = 1

\* C4: once a stream is torn down, neither its keeper task nor its runner
\* task is left running uncancelled.
C4_TasksCancelledOnTeardown ==
    \A i \in Ids :
        StreamEnded(i) =>
            /\ mcp_task[i] \in {"none", "cancelling"} \cup Terminal
            /\ ping_task[i] \in {"none", "cancelling", "cancelled", "done"}

\* C5: after the stream of session S has ended, S is not registered, a POST
\* carrying S's id does not pass the session check of messages_endpoint
\* (it is answered as an unknown session), and the keeper of S is not left
\* sleeping towards another marker.
C5_ClosedSessionUnknown ==
    /\ [](\A i \in Ids :
            StreamEnded(i) =>
                i \notin active_connections /\ ping_task[i] # "sleeping")
    /\ [][\A i \in Ids :
            StreamEnded(i) =>
                [session_id |-> i, message |-> sent + 1] \notin pending_posts']_vars

\* C6: a POST to /messages of server_sse whose session id is missing or not
\* registered, made while some session is registered (rule 2), is answered
\* 200 or 202, goes on to the transport addressed to the most recently
\* active session, and is delivered to the stream of that session.
C6_FallbackDelivers ==
    /\ \A r \in sse_pending :
          r.rule = 2 => r.addressed = r.session_id
    /\ \A m \in Posts :
          sse_log[m].rule = 2 =>
              /\ sse_log[m].status \in {200, 202}
              /\ sse_log[m].addressed = sse_log[m].session_id
              /\ sse_log[m].delivered # 0
              /\ stream_sid[sse_log[m].delivered] = sse_log[m].session_id

\* C7: a POST to /messages of server_sse made while the registry is empty
\* (rule 3) is answered 200 or 202 and its message is kept for the session
\* that was allocated for it, not dropped.
C7_FreshSessionKeepsMessage ==
    \A m \in Posts :
        sse_log[m].rule = 3 =>
            /\ sse_log[m].status \in {200, 202}
            /\ sse_log[m].delivered # 0

\* C8: the id in a stream's endpoint frame is the key of that stream's
\* session in the registry, and a POST carrying an id read from an endpoint
\* frame is resolved by rule 1 to that stream's session.
C8_EndpointIdIsRegistryKey ==
    /\ \A k \in Streams :
          stream_pc[k] = "serving" => Head(sse_frames[k]).sid = stream_sid[k]
    /\ \A r \in sse_pending : \A k \in Streams :
          stream_pc[k] # "none" /\ r.param = Head(sse_frames[k]).sid =>
              r.rule = 1 /\ r.session_id = stream_sid[k]

\* C9: the runner task has put the close signal on the write queue exactly
\* once when it has ended (returned, failed or was cancelled) and not
\* before, and no response is put after the close signal.
C9_SentinelOnce ==
    \A i \in Ids :
        /\ Sentinels(enqueued[i]) = IF mcp_task[i] \in Terminal THEN 1 ELSE 0
        /\ \A k \in 1..Len(enqueued[i]) :
              enqueued[i][k] = NoneItem =>
                  \A j \in (k + 1)..Len(enqueued[i]) :
                      enqueued[i][j].kind # "response"

\* Runners ended in each of the three ways, one of them cancelled by the
\* teardown of its stream while a request was being served.
C9_Witness ==
    \E i \in Ids :
        /\ mcp_task[i] = "cancelled"
        /\ gen[i] = "closed"
        /\ Len(consumed[i]) = 1
        /\ Sentinels(enqueued[i]) = 1
        /\ \E j \in Ids : mcp_task[j] \in {"completed", "failed"}

\* C10: a liveness marker is written as a comment line, that is, with no
\* field name before it and ':' as its first character; the frames written
\* with the field name "data" carry application payloads only.
C10_PingIsComment ==
    \A i \in Ids : \A k \in 2..Len(frames[i]) :
        /\ frames[i][k].payload.kind = "ping" =>
              frames[i][k].field = "" /\ FirstChar(frames[i][k].payload) = ":"
        /\ frames[i][k].field = "data" => frames[i][k].payload.kind = "response"

\* The elements of a sequence.
Range(q) == {q[k] : k \in 1..Len(q)}

\* C11: with several sessions open and their POSTs interleaved, a message
\* posted with session id A is put on A's read queue and on no other; every
\* frame a stream writes after its endpoint frame is the item at the head of
\* its own write queue; and no message or response of one session is on the
\* queues or the stream of another.
C11_Isolation ==
    /\ [](\A i \in Ids :
            /\ \A j \in Ids \ {i} : Range(accepted[i]) \cap Range(accepted[j]) = {}
            /\ Range(ResponseIds(enqueued[i])) \subseteq Range(accepted[i])
            /\ Range(ResponseIds(write_queue[i])) \subseteq Range(accepted[i])
            /\ Range(ResponseIds(Emitted(i))) \subseteq Range(accepted[i]))
    /\ [][\A i \in Ids :
            /\ Len(read_queue'[i]) > Len(read_queue[i]) =>
                  \E r \in pending_posts :
                      /\ r.session_id = i
                      /\ read_queue'[i] = Append(read_queue[i], r.message)
                      /\ \A j \in Ids \ {i} : read_queue'[j] = read_queue[j]
            /\ Len(frames'[i]) > Len(frames[i]) /\ frames[i] # <<>> =>
                  /\ write_queue[i] # <<>>
                  /\ frames'[i] =
                         Append(frames[i], DataFrame(Head(write_queue[i])))
                  /\ write_queue'[i] = Tail(write_queue[i])]_vars

\* Two sessions are registered at once, the POST to the second was made
\* before the POST to the first, and each stream wrote its own response.
C11_Witness ==
    \E i, j \in active_connections :
        /\ i < j
        /\ \A k \in {i, j} :
              Len(accepted[k]) >= 1 /\ Len(ResponseIds(Emitted(k))) >= 1
        /\ Head(accepted[j]) < Head(accepted[i])

\* C12: in the render and minimal servers a POST to /messages is answered
\* 400 unless its session id is registered when the handler checks it, and
\* the step that answers 400 changes neither the registry nor any session's
\* read or write queue (nor is the request kept for a later put).
C12_InvalidSessionRejected ==
    [][/\ \A m \in Msgs :
            post_status[m] = 0 /\ post_status'[m] = 400 =>
                /\ active_connections' = active_connections
                /\ read_queue' = read_queue
                /\ write_queue' = write_queue
                /\ pending_posts' = pending_posts
       /\ sent' = sent + 1 =>
            \/ post_status'[sent'] = 400
            \/ /\ post_status'[sent'] = 0
               /\ \E i \in active_connections :
                      pending_posts' =
                          pending_posts \cup {[session_id |-> i, message |-> sent']}
      ]_vars

\* A POST was answered 400 while a session is registered that holds an
\* accepted message on its read queue and an item on its write queue.
C12_Witness ==
    \E m \in Msgs : \E i \in active_connections :
        /\ post_status[m] = 400
        /\ read_queue[i] # <<>>
        /\ write_queue[i] # <<>>

\* C13: every POST to /messages that has been answered was answered 200 or
\* with a 4xx status, also when the session is removed while the handler is
\* suspended between its session check and its put.
C13_PostNeverFaults ==
    \A m \in Msgs : post_status[m] \in {0, 200, 400}

\* C14: a POST that carries the session id announced in the endpoint frame
\* of a push stream that is still being served is answered 200 or 202, on
\* /messages as on /messages/.
C14_AnnouncedIdAcknowledged ==
    \A m \in Posts : \A k \in Streams :
        /\ sse_log[m].status # 0
        /\ stream_pc[k] = "serving"
        /\ sse_log[m].param = Head(sse_frames[k]).sid
        => sse_log[m].status \in {200, 202}

\* C15: when the runner of a stream takes a call that was posted before the
\* initialize request was served, it writes the error response correlated
\* with that call on the stream, the stream goes on being served and its
\* session stays registered.
C15_PrematureCallRejected ==
    [][\A k \in Streams :
          /\ stream_pc[k] = "serving"
          /\ inbox[k] # <<>>
          /\ inbox'[k] = Tail(inbox[k])
          /\ ~initialized[k]
          /\ sse_method[Head(inbox[k])] = "call"
          => /\ sse_frames'[k] =
                    Append(sse_frames[k],
                           DataFrame(ErrorResponse(Head(inbox[k]))))
             /\ stream_pc'[k] = "serving"
             /\ stream_sid[k] \in DOMAIN active_sessions => 
                    stream_sid[k] \in DOMAIN active_sessions'
      ]_vars

\* C16: while a backend call made for one session is in flight, every other
\* session can take the steps it has work for: its stream can write the item
\* at the head of its write queue, its runner can take the next message, its
\* keeper can wake, and a new POST can be handled.
C16_BackendCallDoesNotBlock ==
    \A i \in Ids : \A j \in Ids \ {i} :
        backend_call = i =>
            /\ gen[j] = "waiting" /\ write_queue[j] # <<>> => ENABLED GenTake(j)
            /\ mcp_task[j] = "running" /\ inflight[j] = 0 /\ read_queue[j] # <<>>
                   => ENABLED RunnerRecv(j)
            /\ ping_task[j] = "sleeping" /\ pings[j] < MaxPings
                   => ENABLED KeeperWake(j)
            /\ sent < MaxMsgs => ENABLED PostCheck(j)

\* C17: on every server variant, a call of the query tool whose text holds
\* an odd number of double quotes or an odd number of single quotes returns
\* a structured error and makes no network request.
C17_UnbalancedQuotesRejected ==
    /\ api_call.op = "execute_wikidata_sparql"
    /\ \/ Count(api_call.arg, DQ) % 2 = 1
       \/ Count(api_call.arg, SQ) % 2 = 1
    => /\ api_call.result.kind = "error"
       /\ api_call.result.requests = <<>>

\* C18: execute_sparql returns a JSON text and raises nothing, however the
\* SPARQLWrapper attempt and the requests attempt end; when neither attempt
\* gets an answer the text is an error record with a message, the type of
\* the last exception and the query text exactly as the caller passed it.
C18_ExecuteSparqlNeverRaises ==
    api_call.op = "execute_sparql" =>
        /\ ~api_call.result.raised
        /\ api_call.result.kind \in {"bindings", "error"}
        /\ api_input.primary # "ok" /\ api_input.fallback # "ok" =>
              /\ api_call.result.kind = "error"
              /\ api_call.result.error # ""
              /\ api_call.result.error_type = api_input.fallback
              /\ api_call.result.query = api_input.query

\* Both attempts failed for a query that was sent with the PREFIX block put
\* before it, and the error record came back.
C18_Witness ==
    /\ api_call.op = "execute_sparql"
    /\ api_input.primary = "raises"
    /\ api_input.fallback = "HTTPError"
    /\ Len(api_input.query) = 2
    /\ Len(api_call.result.requests) = 2
    /\ api_call.result.requests[2].query # api_input.query
    /\ api_call.result.kind = "error"

\* C19: when the backend answers a search with at least one hit,
\* search_entity and search_property return the id of the first hit as it
\* is; when it answers with no hit they return "No entity found" and
\* "No property found".
C19_SearchFirstHit ==
    /\ api_call.op \in {"search_entity", "search_property"}
    /\ api_input.http = "ok"
    => IF api_input.search_key /\ api_input.hits # <<>>
       THEN api_call.result = api_input.hits[1]
       ELSE api_call.result =
                IF api_call.op = "search_entity" THEN "No entity found"
                ELSE "No property found"

\* A search was answered with two different hits and the first came back.
C19_Witness ==
    /\ api_call.op = "search_entity"
    /\ api_input.http = "ok"
    /\ api_input.search_key
    /\ Len(api_input.hits) = 2
    /\ api_input.hits[1] # api_input.hits[2]
    /\ api_call.result = api_input.hits[1]

C21_DeliveryTouchesSession ==
    /\ [](\A m \in Posts :
            sse_log[m].delivered # 0 =>
                sse_log[m].session_id = stream_sid[sse_log[m].delivered])
    /\ [][\A s \in DOMAIN active_sessions \cap DOMAIN active_sessions' :
              active_sessions'[s].last_activity
                  >= active_sessions[s].last_activity]_vars

\* C22: the registry of server_sse holds exactly one entry for each stream
\* that is being served and no entry without such a stream, so the count
\* /health reports, len(active_sessions), is the number of streams being
\* served.
C22_RegistryMatchesStreams ==
    LET serving == {k \in Streams : stream_pc[k] = "serving"}
    IN  /\ DOMAIN active_sessions = {stream_sid[k] : k \in serving}
        /\ \A j, k \in serving : stream_sid[j] = stream_sid[k] => j = k
        /\ Cardinality(DOMAIN active_sessions) = Cardinality(serving)

\* C23: removing a session of server_sse twice is the same as removing it
\* once: a second removal of an id leaves the registry as the first left it
\* and raises nothing; and whenever a stream handler leaves its try block
\* (error branch and then finally branch, also for an id another stream has
\* already removed) the registry is the old one without that id, every other
\* entry as it was, and no error leaves the handler.
C23_RemovalIdempotent ==
    /\ [](\A s \in SseIds :
            LET once == del_session(active_sessions, s)
            IN  del_session(once.registry, s) =
                    [registry |-> once.registry, raised |-> FALSE])
    /\ [][\A k \in Streams :
            stream_pc[k] = "serving" /\ stream_pc'[k] # "serving" =>
                /\ stream_pc'[k] # "KeyError"
                /\ active_sessions' =
                       WithoutEntry(active_sessions, stream_sid[k])]_vars

\* C23 witness: a stream left through an error branch (two removals in one
\* call) after another stream with the same session id had already removed
\* the session, and another session is still registered.
C23_Witness ==
    \E j, k \in Streams :
        /\ j # k
        /\ stream_sid[j] = stream_sid[k]
        /\ stream_pc[j] \in {"returned", "503", "500", "cancelled"}
        /\ stream_pc[k] \in {"503", "500"}
        /\ DOMAIN active_sessions # {}

\* The query text has a prefix declaration of its own (SPARQL prologue:
\* the keyword PREFIX, in either case, followed by a name and an IRI).
DeclaresPrefix(text) ==
    \E k \in 1..Len(text) : text[k] \in {"PREFIX", "prefix"}

\* C24: every request execute_sparql makes for a query carries the default
\* prefixes before the query exactly when the query declares no prefix of
\* its own, and the query as it is otherwise; augmenting an augmented query
\* changes nothing; and the SPARQLWrapper attempt and the requests fallback
\* of one call send the same text.
C24_PrefixesWhenUndeclared ==
    api_call.op = "execute_sparql" =>
        LET sparql_query == api_call.arg
            requests == api_call.result.requests
        IN  /\ \A n \in 1..Len(requests) :
                  requests[n].query =
                      IF DeclaresPrefix(sparql_query) THEN sparql_query
                      ELSE prefixes \o sparql_query
            /\ full_query(full_query(sparql_query)) = full_query(sparql_query)
            /\ \A m, n \in 1..Len(requests) :
                  requests[m].query = requests[n].query

\* C25: whenever the keeper of a session puts a ping on the session's write
\* queue, the session is registered at that moment (before and after the
\* step), however the keeper's sleep, its test and the removal of the
\* session interleave.
C25_PingOnlyWhileRegistered ==
    [][\A i \in Ids :
          pings'[i] > pings[i] =>
              /\ i \in active_connections
              /\ i \in active_connections'
              /\ write_queue'[i] = QueuePut(write_queue[i], ping_message)
      ]_vars

\* C25 witness: a session whose keeper has enqueued a ping and that was
\* removed afterwards, while the keeper was in its sleep.
C25_Witness ==
    \E i \in Ids :
        /\ pings[i] > 0
        /\ i \notin active_connections
        /\ ping_task[i] \in {"cancelling", "cancelled"}

\* The items the generator of session i has taken off its write queue.
Dequeued(i) == SubSeq(enqueued[i], 1, Len(enqueued[i]) - Len(write_queue[i]))

\* C26: once the generator of a session has taken the close signal off the
\* write queue, the stream has ended, no further frame is written on it and
\* nothing more is taken off the queue, whatever the queue still holds or
\* receives later.
C26_NothingAfterSentinel ==
    /\ [](\A i \in Ids :
            NoneItem \in Range(Dequeued(i)) => gen[i] = "closed")
    /\ [][\A i \in Ids :
            NoneItem \in Range(Dequeued(i)) =>
                /\ frames'[i] = frames[i]
                /\ Len(write_queue'[i]) >= Len(write_queue[i])]_vars

\* C26 witness: the close signal was taken while a ping, enqueued after it,
\* was still on the write queue.
C26_Witness ==
    \E i \in Ids :
        /\ NoneItem \in Range(Dequeued(i))
        /\ ping_message \in Range(write_queue[i])

\* C27: if the runner of a session has ended (run() returned, raised, or the
\* task was cancelled) while the session is registered and its stream is
\* neither ended nor abandoned by the client, then eventually the stream
\* has ended and the session is not registered, unless the client stops
\* reading before the stream's loop was entered.
C27_RunnerEndClosesStream ==
    \A i \in Ids :
        (/\ mcp_task[i] \in Terminal
         /\ i \in active_connections
         /\ gen[i] \in {"created", "endpoint", "waiting", "yielded"})
        ~> (\/ gen[i] = "closed" /\ i \notin active_connections
            \/ gen[i] = "dropped")

\* C27 witness: the runner of a session failed while responses were still
\* on the write queue, and the stream then ended by taking the close signal
\* and the session was removed.
C27_Witness ==
    \E i \in Ids :
        /\ mcp_task[i] = "failed"
        /\ Len(ResponseIds(Emitted(i))) > 0
        /\ NoneItem \in Range(Dequeued(i))
        /\ gen[i] = "closed"
        /\ i \notin active_connections

C29_FallbackPicksMostRecent ==
    [][\A r \in sse_pending' \ sse_pending :
          /\ r.rule = 2 =>
                /\ r.session_id \in DOMAIN active_sessions
                /\ \A t \in DOMAIN active_sessions :
                       active_sessions[t].last_activity
                           <= active_sessions[r.session_id].last_activity
                /\ \A t \in DOMAIN active_sessions' \ {r.session_id} :
                       active_sessions'[t].last_activity
                           < active_sessions'[r.session_id].last_activity
          /\ (r.param # NoId /\ r.param \in DOMAIN active_sessions)
                 <=> r.rule = 1
          /\ r.rule = 1 => r.session_id = r.param
      ]_vars

\* C29 witness: two sessions are registered, a POST fell back to the one
\* created first, which is the more recently active of the two, and another
\* POST was resolved by the id it named.
C29_Witness ==
    \E r \in sse_pending :
        /\ r.rule = 2
        /\ r.session_id \in DOMAIN active_sessions
        /\ \E t \in DOMAIN active_sessions :
              /\ t > r.session_id
              /\ active_sessions[t].last_activity
                     < active_sessions[r.session_id].last_activity
        /\ \/ \E q \in sse_pending : q.rule = 1
           \/ \E m \in Posts : sse_log[m].rule = 1

\* C30: when the runner of a stream of server_sse fails with an exception,
\* the handler does not let an exception out: it answers the client with
\* status 503 or 500, its session is no longer registered, every other
\* registry entry is as it was and every other stream goes on as it was.
C30_RunnerFailureContained ==
    [][\A k \in Streams :
          /\ stream_pc[k] = "serving"
          /\ stream_pc'[k] \notin {"serving", "returned", "cancelled"}
          => /\ stream_pc'[k] \in {"503", "500"}
             /\ client_status(k)' = stream_pc'[k]
             /\ stream_sid[k] \notin DOMAIN active_sessions'
             /\ \A t \in DOMAIN active_sessions \ {stream_sid[k]} :
                    /\ t \in DOMAIN active_sessions'
                    /\ active_sessions'[t] = active_sessions[t]
             /\ \A j \in Streams \ {k} :
                    /\ stream_pc'[j] = stream_pc[j]
                    /\ stream_writer'[j] = stream_writer[j]
                    /\ inbox'[j] = inbox[j]
      ]_vars

\* C31: a call of post_messages_no_slash changes at most one entry of the
\* registry: under rules 1 and 2 the entry of the resolved session gets a
\* new last_activity and its message_count plus one and nothing else
\* changes; under rule 3 exactly one entry, the new session's, is added; no
\* entry is removed and no other entry is modified; the rest of the call
\* (forwarding to the transport) leaves the registry as it is.
C31_PostChangesOneEntry ==
    /\ [][\A r \in sse_pending' \ sse_pending :
            /\ DOMAIN active_sessions \subseteq DOMAIN active_sessions'
            /\ \A t \in DOMAIN active_sessions \ {r.session_id} :
                   active_sessions'[t] = active_sessions[t]
            /\ r.rule \in {1, 2} =>
                   /\ DOMAIN active_sessions' = DOMAIN active_sessions
                   /\ r.session_id \in DOMAIN active_sessions
                   /\ active_sessions'[r.session_id] =
                          [active_sessions[r.session_id] EXCEPT
                               !.last_activity = clock,
                               !.message_count = @ + 1]
            /\ r.rule = 3 =>
                   /\ DOMAIN active_sessions = {}
                   /\ DOMAIN active_sessions' = {r.session_id}
         ]_vars
    /\ [][\A r \in sse_pending \ sse_pending' :
            active_sessions' = active_sessions]_vars

\* C31 witness: a POST was resolved to one of two registered sessions, and
\* the other session's entry still counts no message.
C31_Witness ==
    \E r \in sse_pending :
        /\ r.rule \in {1, 2}
        /\ r.session_id \in DOMAIN active_sessions
        /\ active_sessions[r.session_id].message_count > 0
        /\ \E t \in DOMAIN active_sessions \ {r.session_id} :
               active_sessions[t].message_count = 0

\* C32: opening a stream of server_sse with a session_id parameter that
\* names a registered session adds no entry and changes nothing but that
\* entry's last_activity; and the session id of every stream that is being
\* served is registered, also after another stream with the same id ended.
C32_SharedSessionStaysRegistered ==
    /\ [][\A k \in Streams :
            /\ stream_pc[k] = "none"
            /\ stream_pc'[k] = "serving"
            /\ stream_sid'[k] \in DOMAIN active_sessions
            => /\ DOMAIN active_sessions' = DOMAIN active_sessions
               /\ active_sessions' =
                      [active_sessions EXCEPT
                           ![stream_sid'[k]].last_activity = clock]
         ]_vars
    /\ [](\A k \in Streams :
            stream_pc[k] = "serving" =>
                stream_sid[k] \in DOMAIN active_sessions)

\* The attempts of a call that went through the client named via.
Via(requests, via) == {n \in 1..Len(requests) : requests[n].via = via}

\* C33: a call of execute_sparql makes at most two attempts; the attempt
\* with SPARQLWrapper, if the class is usable, comes first; the fallback with
\* requests is called exactly once when that attempt raised or the class is
\* unusable, and not at all when the attempt answered, in which case the
\* call returns the bindings.
C33_FallbackOnlyAfterFailure ==
    api_call.op = "execute_sparql" =>
        LET requests == api_call.result.requests
            primary == api_input.primary
        IN  /\ Len(requests) <= 2
            /\ Cardinality(Via(requests, "SPARQLWrapper")) =
                   IF primary = "unusable" THEN 0 ELSE 1
            /\ primary # "unusable" => requests[1].via = "SPARQLWrapper"
            /\ Cardinality(Via(requests, "requests")) =
                   IF primary = "ok" THEN 0 ELSE 1
            /\ primary = "ok" => api_call.result.kind = "bindings"

\* C33 witness: the attempt with SPARQLWrapper raised and the call went on
\* to the fallback, which answered.
C33_Witness ==
    /\ api_call.op = "execute_sparql"
    /\ api_input.primary = "raises"
    /\ Len(api_call.result.requests) = 2
    /\ api_call.result.kind = "bindings"

\* C34: in a call of find_entity_facts, every identifier passed to
\* get_entity_metadata or to execute_sparql is one that a search returned as
\* a hit; and when the search for the entity, or the search for a requested
\* property, found nothing or failed, the call returns an error record and
\* makes no execute_sparql call.
C34_FactsOnlyWithFoundIds ==
    api_call.op = "find_entity_facts" =>
        LET calls == api_call.result.calls
            found(answer) ==
                answer.http = "ok" /\ answer.search_key /\ Len(answer.hits) > 0
            searches_ok ==
                /\ found(api_input.entity)
                /\ api_input.property_name => found(api_input.property)
        IN  /\ \A n \in 1..Len(calls) :
                  calls[n].fn \in {"get_entity_metadata", "execute_sparql"} =>
                      \A a \in 1..Len(calls[n].args) :
                          calls[n].args[a] \in HitIds
            /\ ~searches_ok =>
                  /\ api_call.result.kind = "error"
                  /\ \A n \in 1..Len(calls) : calls[n].fn # "execute_sparql"

\* C35: a call of execute_wikidata_sparql of server_sse with a query that
\* has an even number of double quotes and an even number of single quotes
\* is not answered with a validation error: the query is handed to
\* execute_sparql, which makes a request with it.
C35_BalancedQuotesForwarded ==
    /\ api_call.op = "execute_wikidata_sparql"
    /\ variant = "sse"
    /\ Count(api_call.arg, DQ) % 2 = 0
    /\ Count(api_call.arg, SQ) % 2 = 0
    => /\ api_call.result.requests # <<>>
       /\ api_call.result.error \notin
              {"Unbalanced double quotes in SPARQL query",
               "Unbalanced single quotes in SPARQL query",
               "Possible quote issue in CONTAINS"}

\* C36: when a stream of server_sse is opened for a session id that
\* post_messages_no_slash had registered with connection_count 0, the
\* connection_count of that session is one more afterwards.
C36_ConnectionCounted ==
    [][\A k \in Streams :
          /\ stream_pc[k] = "none"
          /\ stream_pc'[k] = "serving"
          /\ stream_sid'[k] \in DOMAIN active_sessions
          /\ active_sessions[stream_sid'[k]].connection_count = 0
          => active_sessions'[stream_sid'[k]].connection_count =
                 active_sessions[stream_sid'[k]].connection_count + 1
      ]_vars

=============================================================================
